---- MODULE Spec2Model ----
(***************************************************************************)
(* The browser tracker of backend/src/public/tracking-script.js as a state *)
(* machine: the Analytics object (config, state), the closure state of     *)
(* setupEventListeners, the browser around it (durable storage, clock,     *)
(* scroll position, tab visibility) and the events handed to sendEvent,     *)
(* and the ingestion endpoint of backend/src/routes/tracking.ts behind its *)
(* rate limiter.                                                           *)
(*                                                                         *)
(* JavaScript runs every call to completion, so each API call and each     *)
(* listener is one action.  The only exception is Analytics.init, whose    *)
(* call of processEventQueue is a loop: init is split at the loop head     *)
(* (pc = "queue") and after the shift (pc = "replay"); no other handler    *)
(* runs while pc is not "idle".  An exception thrown by the auto-          *)
(* initialization aborts the script before line 298 exposes the Analytics  *)
(* object (pc = "aborted"): that page offers no API and has no listener.   *)
(***************************************************************************)
EXTENDS Integers, Sequences, FiniteSets, TLC

\* ------------------------------------------------------------ bounds
MaxQueue == 2        \* longest eventQueue explored
MaxSent == 2         \* most events transmitted in one page load
MaxTime == 750       \* the clock stops here (ms) when only scrolling is explored
MaxPageTime == 250   \* the clock stops here (ms) when every listener is explored
TickMs == 250        \* granularity of the clock (ms)
MaxInitsCounted == 2 \* scopeInits saturates here
RateMax == 2         \* MAX_EVENTS_PER_MINUTE, the ceiling of the tracking limiter
GeneralMax == 6      \* RATE_LIMIT_MAX_REQUESTS, the ceiling of the general limiter
MaxOver == 4         \* overlapping requests explored beyond the ceiling
TrackTickMs == 20000 \* granularity of the server's clock within a minute (ms)
MaxTrackTime == 80000 \* the fine clock stops here (ms)
BurstTickMs == 125       \* the step of the clock within a burst of scroll events
MaxBurstTime == 500      \* the clock of a burst of scroll events stops here
ApiTickMs == 300000  \* granularity of the server's clock within a quarter (ms)
MaxApiTime == 1200000 \* the coarse clock stops here (ms)

\* ------------------------------------------------------------ values
Nil == 0 - 1                     \* an absent number (undefined / null)
NoId == ""                       \* a falsy id: null or the empty string
TrackingIds == {"T1", "T2"}
VisitorIds == {"v1", "v2"}       \* outcomes of 'visitor_' + Date.now() + random
SessionIds == {"s1", "s2"}       \* outcomes of 'session_' + Date.now() + random
Tags == {"x"}                    \* customData the host page passes
ApiEventTypes == {"custom"}      \* event types the host page passes
ClickTargets == {"a", "div"}     \* tag names of click targets
ScrollRanges == {0, 40}          \* scrollHeight - innerHeight when the timeout fires
ScrollYs == {10, 20, 24, 40, 41} \* window.scrollY after a scroll
Networks == {"ok", "failed", "limited"} \* what becomes of a request: delivered,
                                 \* lost, or answered 429

VARIABLES
  cfgTrackingId,   \* Analytics.config.trackingId
  autoTrack,       \* Analytics.config.autoTrack
  visitorId,       \* Analytics.state.visitorId
  sessionId,       \* Analytics.state.sessionId
  pageLoadTime,    \* Analytics.state.pageLoadTime
  isInitialized,   \* Analytics.state.isInitialized
  eventQueue,      \* Analytics.state.eventQueue
  localStorage,    \* localStorage['analytics_visitor_id'] (NoId: absent)
  storageThrows,   \* localStorage access throws in this browser
  listeners,       \* number of times setupEventListeners has run
  maxScrollDepth,  \* closure variable of setupEventListeners
  scrollTimer,     \* closure variable: due time of the pending timeout, or Nil
  scrollY,         \* window.scrollY
  visibility,      \* document.visibilityState
  now,             \* Date.now()
  sent,            \* the events handed to sendEvent in this page load
  pc,              \* "boot", "idle", "queue", "replay", "aborted"
  cur,             \* processEventQueue's local variable event
  lastInit,        \* history: how the last init call of this page load ended
  loadedAt,        \* history: Date.now() when the state object was created
  scopeVisitors,   \* history: visitor ids resolved since storage was cleared
  scopeInits,      \* history: how many inits resolved one (saturating)
  hasBeacon,       \* navigator.sendBeacon exists
  hasFetch,        \* fetch exists
  network,         \* what becomes of a request issued now
  wire,            \* what sendEvent did with each event of sent, in order
  escaped,         \* history: an exception left the tracker in this page load
  hits,            \* server: requests the tracking limiter counted in this window
  request,         \* server: the request being answered
  responses,       \* server: the responses written to it
  forwarded,       \* server: the records logged for the downstream worker
  resetTime,       \* server: when the tracking limiter's window ends (Nil: none)
  apiHits,         \* server: requests the general limiter counted in this window
  apiReset,        \* server: when the general limiter's window ends (Nil: none)
  inflight,        \* server: the counts of the requests inside the tracking limiter
  admitted,        \* history: requests the tracking limiter let pass
  refused,         \* history: requests the tracking limiter rejected
  loyalty          \* the Analytics.loyalty call in progress

vars == <<cfgTrackingId, autoTrack, visitorId, sessionId, pageLoadTime,
          isInitialized, eventQueue, localStorage, storageThrows, listeners,
          maxScrollDepth, scrollTimer, scrollY, visibility, now,
          sent, pc, cur, lastInit, loadedAt, scopeVisitors, scopeInits,
          hasBeacon, hasFetch, network, wire, escaped,
          hits, request, responses, forwarded, resetTime, apiHits, apiReset,
          inflight, admitted, refused, loyalty>>

\* Analytics.config and the identity part of Analytics.state
idVars == <<cfgTrackingId, autoTrack, visitorId, sessionId, isInitialized>>
\* the closure state of setupEventListeners
closureVars == <<listeners, maxScrollDepth, scrollTimer>>
\* the browser
browserVars == <<scrollY, visibility, storageThrows>>
\* the history variables
historyVars == <<lastInit, loadedAt, scopeVisitors, scopeInits>>
\* the browser's transports and the network behind them
envVars == <<hasBeacon, hasFetch, network>>
\* the ingestion endpoint
serverVars == <<hits, request, responses, forwarded, resetTime, apiHits,
                apiReset, inflight, admitted, refused>>
\* what neither init, trackEvent, the shim nor a listener changes
outsideVars == <<envVars, serverVars, loyalty>>

\* ------------------------------------------------------------ data
NoData == [depth |-> Nil, timeOnPage |-> Nil, scrollDepth |-> Nil, tag |-> ""]

NoEvent == [eventType |-> "", customData |-> NoData]

\* a slip: trackEvent mints a session id of its own for each event
EventData_OwnSession(tid, vid, sid, eventType, customData) ==
  [trackingId |-> tid, visitorId |-> vid,
   sessionId |-> CHOOSE x \in SessionIds : x # sid,
   eventType |-> eventType, customData |-> customData]

\* trackEvent's eventData (pageUrl, pageTitle, referrer and the timestamp
\* are left out: no operation reads them)
EventData(tid, vid, sid, eventType, customData) ==
  [trackingId |-> tid, visitorId |-> vid, sessionId |-> sid,
   eventType |-> eventType, customData |-> customData]

\* a slip: trackEvent without its test of state.isInitialized
MustQueue_Never(initialized) == FALSE

\* trackEvent's test of state.isInitialized
MustQueue(initialized) == ~initialized

\* a slip: sendEvent tries fetch before sendBeacon
Transport_FetchFirst(beacon, fetch) ==
  IF fetch \/ ~beacon THEN "fetch" ELSE "beacon"

\* sendEvent's choice of transport: navigator.sendBeacon if it exists, else
\* fetch, whether fetch exists or not
Transport(beacon, fetch) == IF beacon THEN "beacon" ELSE "fetch"

\* sendEvent(eventData): one request through the chosen transport; what
\* becomes of it (sendBeacon's result, the rejection of fetch's promise) is
\* not acted on.  Where fetch is chosen and does not exist, calling it
\* throws a ReferenceError that no caller catches
SendEvent(eventData) ==
  LET via == Transport(hasBeacon, hasFetch)
      threw == via = "fetch" /\ ~hasFetch
  IN /\ sent' = Append(sent, eventData)
     /\ wire' = Append(wire, [via |-> via,
                              outcome |-> IF threw THEN "threw" ELSE network])
     /\ escaped' = (escaped \/ threw)

\* trackEvent(eventType, customData), reading the state it is given
TrackEvent(initialized, tid, vid, sid, eventType, customData) ==
  IF MustQueue(initialized)
  THEN /\ Len(eventQueue) < MaxQueue
       /\ eventQueue' = Append(eventQueue,
                               [eventType |-> eventType, customData |-> customData])
       /\ UNCHANGED <<sent, wire, escaped>>
  ELSE /\ Len(sent) < MaxSent
       /\ SendEvent(EventData(tid, vid, sid, eventType, customData))
       /\ UNCHANGED eventQueue

\* trackEvent called from a listener or by the host page
TrackEventNow(eventType, customData) ==
  TrackEvent(isInitialized, cfgTrackingId, visitorId, sessionId, eventType, customData)

\* ------------------------------------------------------------ the endpoint
Absent == "<absent>"             \* a field the JSON body does not have (undefined)
Falsy == ""                      \* a field that is present and falsy
FalsyValues == {Falsy, "0", "false", "null"} \* the JSON values "", 0, false, null
RequiredFields == {"trackingId", "pageUrl", "sessionId", "visitorId"}

\* a body with every field given
GivenBody ==
  [trackingId |-> "T1", eventType |-> "custom", pageUrl |-> "https://x.com",
   pageTitle |-> "Home", referrer |-> Absent, sessionId |-> "s1",
   visitorId |-> "v1", customData |-> "{k:1}"]

\* the JSON bodies a client posts: every combination of absent, falsy and
\* given required fields around given optional fields, every combination
\* of optional fields around given required fields, and every falsy value
\* in each required field
Bodies ==
  {[GivenBody EXCEPT ![f] = v] : f \in RequiredFields, v \in FalsyValues}
  \cup
  [trackingId : {Absent, Falsy, "T1"},
   eventType : {"custom"},
   pageUrl : {Absent, Falsy, "https://x.com"},
   pageTitle : {"Home"},
   referrer : {Absent},
   sessionId : {Absent, Falsy, "s1"},
   visitorId : {Absent, Falsy, "v1"},
   customData : {"{k:1}"}]
  \cup
  [trackingId : {"T1"},
   eventType : {Absent, Falsy, "custom"},
   pageUrl : {"https://x.com"},
   pageTitle : {Absent, "Home"},
   referrer : {Absent, "https://r.com"},
   sessionId : {"s1"},
   visitorId : {"v1"},
   customData : {Absent, "{k:1}"}]

UserAgents == {Absent, "UA"}     \* the User-Agent header
ClientIps == {"10.0.0.1"}        \* req.ip

NoRequest == [method |-> "none"]

\* a slip: the validation tests presence, not truthiness
IsFalsy_AbsentOnly(v) == v = Absent

\* !x of JavaScript, for a field of the body
IsFalsy(v) == v = Absent \/ v \in FalsyValues

\* a slip: the destructuring default replaces every falsy value
Default_OnFalsy(v, d) == IF IsFalsy(v) THEN d ELSE v

\* a destructuring default (eventType = 'page_view', customData = {}): it
\* replaces undefined only
Default(v, d) == IF v = Absent THEN d ELSE v

\* a slip: the validation forgets visitorId
FailsValidation_ThreeFields(body) ==
  IsFalsy(body.trackingId) \/ IsFalsy(body.pageUrl) \/ IsFalsy(body.sessionId)

\* !trackingId || !pageUrl || !sessionId || !visitorId
FailsValidation(body) ==
  \/ IsFalsy(body.trackingId)
  \/ IsFalsy(body.pageUrl)
  \/ IsFalsy(body.sessionId)
  \/ IsFalsy(body.visitorId)

\* a response: its status, the keys of its JSON object, the value of
\* success ("undefined" where the object has no such key), the fields its
\* error text names and its retryAfter
Response(status, keys, success, named, retryAfter) ==
  [status |-> status, keys |-> keys, success |-> success, named |-> named,
   retryAfter |-> retryAfter]

\* the fields named by 'Missing required fields: trackingId, pageUrl,
\* sessionId, visitorId'
NamedInError(body) == RequiredFields

BadRequest(body) ==
  Response(400, {"success", "error"}, "false", NamedInError(body), Nil)

Tracked == Response(200, {"success", "message"}, "true", {}, Nil)

ServerError == Response(500, {"success", "error"}, "false", {}, Nil)

\* the retryAfter of the tracking limiter's rejection
RetryAfterSeconds == 60

\* the body written by the handler of trackingRateLimiter
TooManyRequests ==
  Response(429, {"error", "retryAfter"}, "undefined", {}, RetryAfterSeconds)

\* a slip: the logged record loses customData
TrackingRecord_NoCustomData(body, userAgent, ip) ==
  [trackingId |-> body.trackingId,
   eventType |-> Default(body.eventType, "page_view"),
   pageUrl |-> body.pageUrl,
   pageTitle |-> body.pageTitle,
   referrer |-> body.referrer,
   sessionId |-> body.sessionId,
   visitorId |-> body.visitorId,
   userAgent |-> IF IsFalsy(userAgent) THEN "" ELSE userAgent,
   ipAddress |-> ip,
   customData |-> "{}"]

\* the record logged for the downstream worker
TrackingRecord(body, userAgent, ip) ==
  [trackingId |-> body.trackingId,
   eventType |-> Default(body.eventType, "page_view"),
   pageUrl |-> body.pageUrl,
   pageTitle |-> body.pageTitle,
   referrer |-> body.referrer,
   sessionId |-> body.sessionId,
   visitorId |-> body.visitorId,
   userAgent |-> IF IsFalsy(userAgent) THEN "" ELSE userAgent,
   ipAddress |-> ip,
   customData |-> Default(body.customData, "{}")]

\* no Analytics.loyalty call is in progress
NoLoyalty ==
  [phase |-> "none", method |-> "", enabled |-> TRUE, cbThrows |-> FALSE,
   data |-> "", requests |-> 0, callbacks |-> 0, threw |-> FALSE]

\* ------------------------------------------------------------ page load
\* the script is evaluated: config is read from the window globals and the
\* state object is created; line 293 (the auto-initialization) is next
Loaded ==
  /\ cfgTrackingId \in TrackingIds \cup {NoId}
  /\ autoTrack \in BOOLEAN
  /\ storageThrows \in BOOLEAN
  /\ visitorId = NoId
  /\ sessionId = NoId
  /\ pageLoadTime = 0
  /\ isInitialized = FALSE
  /\ eventQueue = <<>>
  /\ localStorage = NoId
  /\ listeners = 0
  /\ maxScrollDepth = 0
  /\ scrollTimer = Nil
  /\ scrollY = 0
  /\ visibility = "visible"
  /\ now = 0
  /\ sent = <<>>
  /\ pc = "boot"
  /\ cur = NoEvent
  /\ lastInit = "none"
  /\ loadedAt = 0
  /\ scopeVisitors = {}
  /\ scopeInits = 0
  /\ wire = <<>>
  /\ escaped = FALSE
  /\ loyalty = NoLoyalty

\* the endpoint has answered no request yet
ServerIdle ==
  /\ hits = 0
  /\ request = NoRequest
  /\ responses = <<>>
  /\ forwarded = <<>>
  /\ resetTime = Nil
  /\ apiHits = 0
  /\ apiReset = Nil
  /\ inflight = {}
  /\ admitted = 0
  /\ refused = 0

\* a page load in a current browser (sendBeacon and fetch exist) on a
\* working network
Init ==
  /\ Loaded
  /\ hasBeacon = TRUE
  /\ hasFetch = TRUE
  /\ network = "ok"
  /\ ServerIdle

\* a page load in any browser, on any network
EnvInit ==
  /\ Loaded
  /\ hasBeacon \in BOOLEAN
  /\ hasFetch \in BOOLEAN
  /\ network \in Networks
  /\ ServerIdle

\* a new page load in the same browser: a new document, a new Analytics
\* object; durable storage and the clock are kept.  The browser navigates
\* between two tasks, never inside a running call
PageLoad ==
  /\ pc \in {"idle", "aborted"}
  /\ cfgTrackingId' \in TrackingIds \cup {NoId}
  /\ autoTrack' \in BOOLEAN
  /\ storageThrows' \in BOOLEAN
  /\ visitorId' = NoId
  /\ sessionId' = NoId
  /\ pageLoadTime' = now
  /\ isInitialized' = FALSE
  /\ eventQueue' = <<>>
  /\ listeners' = 0
  /\ maxScrollDepth' = 0
  /\ scrollTimer' = Nil
  /\ scrollY' = 0
  /\ visibility' = "visible"
  /\ sent' = <<>>
  /\ wire' = <<>>
  /\ escaped' = FALSE
  /\ loyalty' = NoLoyalty
  /\ pc' = "boot"
  /\ cur' = NoEvent
  /\ lastInit' = "none"
  /\ loadedAt' = now
  /\ UNCHANGED <<envVars, serverVars, localStorage, now, scopeVisitors, scopeInits>>

\* ------------------------------------------------------------ init
\* a slip: init without its test of state.isInitialized
AlreadyInitialized_Never == FALSE

\* init's test of state.isInitialized
AlreadyInitialized == isInitialized

\* a slip: getOrCreateVisitorId ignores the stored id
GetOrCreateVisitorId_AlwaysFresh(stored, fresh) == fresh

\* getOrCreateVisitorId: the id it returns, given what getItem returned and
\* the id it would generate
GetOrCreateVisitorId(stored, fresh) == IF stored = NoId THEN fresh ELSE stored

\* getOrCreateVisitorId: the storage entry it leaves
StorageAfterGetOrCreate(stored, fresh) == IF stored = NoId THEN fresh ELSE stored

\* trackPageView's page metadata merged with customData
PageViewData(tag) == [NoData EXCEPT !.tag = tag]

\* Analytics.init(arg) up to its call of processEventQueue; fresh and
\* session are the ids the generators would produce, afterThrow is where
\* the caller is left by an exception
InitBody(arg, fresh, session, afterThrow) ==
  IF AlreadyInitialized
  THEN /\ pc' = "idle"
       /\ lastInit' = "noop"
       /\ UNCHANGED <<idVars, pageLoadTime, eventQueue, closureVars,
                      localStorage, sent, wire, escaped, cur, scopeVisitors, scopeInits>>
  ELSE LET tid == IF arg # NoId THEN arg ELSE cfgTrackingId
           vid == GetOrCreateVisitorId(localStorage, fresh)
       IN /\ cfgTrackingId' = tid
          /\ IF tid = NoId \/ storageThrows
             THEN \* no tracking id: logged, return; or getItem throws
                  /\ pc' = IF tid = NoId THEN "idle" ELSE afterThrow
                  /\ lastInit' = IF tid = NoId THEN "noid" ELSE "threw"
                  /\ escaped' = (escaped \/ tid # NoId)
                  /\ UNCHANGED <<visitorId, sessionId, eventQueue, closureVars,
                                 localStorage, sent, wire, scopeVisitors, scopeInits>>
             ELSE /\ visitorId' = vid
                  /\ localStorage' = StorageAfterGetOrCreate(localStorage, fresh)
                  /\ sessionId' = session
                  /\ listeners' = listeners + 1
                  /\ maxScrollDepth' = 0
                  /\ scrollTimer' = Nil
                  /\ scopeVisitors' = scopeVisitors \cup {vid}
                  /\ scopeInits' = IF scopeInits < MaxInitsCounted
                                   THEN scopeInits + 1 ELSE scopeInits
                  /\ IF autoTrack
                     THEN TrackEvent(isInitialized, tid, vid, session,
                                     "page_view", PageViewData(""))
                     ELSE UNCHANGED <<eventQueue, sent, wire, escaped>>
                  /\ pc' = "queue"
                  /\ lastInit' = "ran"
          /\ UNCHANGED <<autoTrack, pageLoadTime, isInitialized, cur>>

\* lines 293-295: auto-initialize if a tracking id is configured
Boot ==
  /\ pc = "boot"
  /\ IF cfgTrackingId # NoId
     THEN \E fresh \in VisitorIds, session \in SessionIds :
            InitBody(cfgTrackingId, fresh, session, "aborted")
     ELSE /\ pc' = "idle"
          /\ UNCHANGED <<idVars, pageLoadTime, eventQueue, closureVars,
                         localStorage, sent, wire, escaped, cur, lastInit, scopeVisitors,
                         scopeInits>>
  /\ UNCHANGED <<outsideVars, browserVars, now, loadedAt>>

\* Analytics.init(arg), called by the host page
ApiInit(arg, fresh, session) ==
  /\ pc = "idle"
  /\ InitBody(arg, fresh, session, "idle")
  /\ UNCHANGED <<outsideVars, browserVars, now, loadedAt>>

\* the host page calls Analytics.init(arg)
InitCall ==
  \E arg \in TrackingIds \cup {NoId}, fresh \in VisitorIds, session \in SessionIds :
    ApiInit(arg, fresh, session)

\* processEventQueue: the loop test and the shift; when the queue is empty
\* init goes on to set isInitialized and returns
ProcessQueueShift ==
  /\ pc = "queue"
  /\ IF Len(eventQueue) > 0
     THEN /\ cur' = Head(eventQueue)
          /\ eventQueue' = Tail(eventQueue)
          /\ pc' = "replay"
          /\ UNCHANGED isInitialized
     ELSE /\ isInitialized' = TRUE
          /\ pc' = "idle"
          /\ UNCHANGED <<cur, eventQueue>>
  /\ UNCHANGED <<outsideVars, cfgTrackingId, autoTrack, visitorId, sessionId, pageLoadTime,
                 closureVars, localStorage, browserVars, now, sent, wire, escaped, historyVars>>

\* processEventQueue: this.trackEvent(event.eventType, event.customData)
ProcessQueueTrack ==
  /\ pc = "replay"
  /\ TrackEventNow(cur.eventType, cur.customData)
  /\ pc' = "queue"
  /\ cur' = NoEvent
  /\ UNCHANGED <<outsideVars, idVars, pageLoadTime, closureVars, localStorage, browserVars,
                 now, historyVars>>

\* the steps inside a running init
InitStep == ProcessQueueShift \/ ProcessQueueTrack

\* ------------------------------------------------------------ the API
\* Analytics.trackEvent(type, data), called by the host page
ApiTrackEvent(type, data) ==
  /\ pc = "idle"
  /\ TrackEventNow(type, data)
  /\ UNCHANGED <<outsideVars, idVars, pageLoadTime, closureVars, localStorage, browserVars,
                 now, pc, cur, historyVars>>

\* the host page calls Analytics.trackEvent(type, data)
TrackEventCall ==
  \E type \in ApiEventTypes, tag \in Tags :
    ApiTrackEvent(type, [NoData EXCEPT !.tag = tag])

\* the calls of window.gtag the host page makes: the command and args[1]
GtagCalls ==
  ({"config"} \X (TrackingIds \cup {NoId}))
    \cup ({"event"} \X ApiEventTypes)
    \cup ({"set"} \X {NoId, "T1"})

\* a slip: the shim forwards 'config' without an id
GtagTarget_ConfigAlways(command, arg1) ==
  IF command = "config" THEN "init"
  ELSE IF command = "event" THEN "trackEvent" ELSE "none"

\* the shim's dispatch on its command: command === 'config' && args[1],
\* else command === 'event', else nothing
GtagTarget(command, arg1) ==
  IF command = "config" /\ arg1 # NoId THEN "init"
  ELSE IF command = "event" THEN "trackEvent" ELSE "none"

\* window.gtag(command, arg1, arg2)
Gtag(command, arg1, arg2, fresh, session) ==
  /\ pc = "idle"
  /\ CASE GtagTarget(command, arg1) = "init" ->
            /\ InitBody(arg1, fresh, session, "idle")
            /\ UNCHANGED <<outsideVars, browserVars, now, loadedAt>>
       [] GtagTarget(command, arg1) = "trackEvent" ->
            /\ TrackEventNow(arg1, arg2)
            /\ UNCHANGED <<outsideVars, idVars, pageLoadTime, closureVars,
                           localStorage, browserVars, now, pc, cur, historyVars>>
       [] OTHER -> UNCHANGED vars

\* the host page calls window.gtag
GtagCall ==
  \E call \in GtagCalls, tag \in Tags, fresh \in VisitorIds, session \in SessionIds :
    Gtag(call[1], call[2], [NoData EXCEPT !.tag = tag], fresh, session)

\* the host page calls Analytics.trackPageView(data)
TrackPageViewCall ==
  /\ pc = "idle"
  /\ \E tag \in Tags : TrackEventNow("page_view", PageViewData(tag))
  /\ UNCHANGED <<outsideVars, idVars, pageLoadTime, closureVars, localStorage, browserVars,
                 now, pc, cur, historyVars>>

\* ------------------------------------------------------------ listeners
\* a slip: the time on page is taken from the epoch, not from the timer
TimeOnPage_NoTimer(t, start) == t

\* Date.now() - self.state.pageLoadTime
TimeOnPage(t, start) == t - start

\* the tab is hidden or shown; the visibilitychange listener, if installed
VisibilityChange ==
  /\ pc = "idle"
  /\ visibility' = IF visibility = "visible" THEN "hidden" ELSE "visible"
  /\ IF listeners = 0
     THEN UNCHANGED <<pageLoadTime, eventQueue, sent, wire, escaped>>
     ELSE IF visibility' = "hidden"
          THEN /\ TrackEventNow("page_hidden",
                                [NoData EXCEPT !.timeOnPage = TimeOnPage(now, pageLoadTime)])
               /\ UNCHANGED pageLoadTime
          ELSE /\ pageLoadTime' = now
               /\ TrackEventNow("page_visible", NoData)
  /\ UNCHANGED <<outsideVars, idVars, closureVars, localStorage, scrollY, storageThrows, now, pc, cur, historyVars>>

\* the click listener's test of its target: an anchor, a button or an
\* element with a data-track-click attribute
ClickIsTracked(tagName, dataTrackClick) ==
  tagName = "a" \/ tagName = "button" \/ dataTrackClick

\* a click on an element of the page; the click listener, if installed
Click ==
  /\ pc = "idle"
  /\ \E tagName \in ClickTargets, dataTrackClick \in BOOLEAN :
       IF listeners > 0 /\ ClickIsTracked(tagName, dataTrackClick)
       THEN TrackEventNow("click", [NoData EXCEPT !.tag = tagName])
       ELSE UNCHANGED <<eventQueue, sent, wire, escaped>>
  /\ UNCHANGED <<outsideVars, idVars, pageLoadTime, closureVars, localStorage, browserVars,
                 now, pc, cur, historyVars>>

\* a form is submitted; the submit listener, if installed
Submit ==
  /\ pc = "idle"
  /\ IF listeners > 0
     THEN TrackEventNow("form_submit", [NoData EXCEPT !.tag = "signup"])
     ELSE UNCHANGED <<eventQueue, sent, wire, escaped>>
  /\ UNCHANGED <<outsideVars, idVars, pageLoadTime, closureVars, localStorage, browserVars,
                 now, pc, cur, historyVars>>

\* the timeout of the scroll listener
DebounceMs == 250

\* a slip: the scroll listener without its clearTimeout, so that the timeout
\* that is pending is the next to fire
RestartTimer_KeepPending(pending, t) ==
  IF pending # Nil THEN pending ELSE t + DebounceMs

\* clearTimeout(scrollTimer); scrollTimer = setTimeout(..., 250) at time t:
\* the time the one pending timeout is due
RestartTimer(pending, t) == t + DebounceMs

\* the user scrolls to y; the scroll listener, if installed, restarts its timer
Scroll ==
  /\ pc = "idle"
  /\ \E y \in ScrollYs : scrollY' = y
  /\ scrollTimer' = IF listeners > 0 THEN RestartTimer(scrollTimer, now)
                    ELSE scrollTimer
  /\ UNCHANGED <<outsideVars, idVars, pageLoadTime, eventQueue, listeners, maxScrollDepth,
                 localStorage, visibility, storageThrows, now,
                 sent, wire, escaped, pc, cur, historyVars>>

\* Math.round((y / range) * 100) for range > 0 and y >= 0
ScrollDepth(y, range) == (200 * y + range) \div (2 * range)

\* a slip: the scroll listener without its test against maxScrollDepth
IsNewMaxDepth_NoMax(y, range, max) ==
  /\ range > 0
  /\ ScrollDepth(y, range) <= 100

\* a slip: the scroll listener without its test against 100
IsNewMaxDepth_NoCap(y, range, max) ==
  /\ range > 0
  /\ ScrollDepth(y, range) > max

\* scrollDepth > maxScrollDepth && scrollDepth <= 100; with range = 0 the
\* quotient is NaN or Infinity and the test is false
IsNewMaxDepth(y, range, max) ==
  /\ range > 0
  /\ ScrollDepth(y, range) > max
  /\ ScrollDepth(y, range) <= 100

\* scrollDepth >= 25 && scrollDepth % 25 === 0
EmitsScrollDepth(depth) == depth >= 25 /\ depth % 25 = 0

\* the body of the scroll listener's timeout, with range the value of
\* document.body.scrollHeight - window.innerHeight it reads
ScrollSettled(range) ==
  IF IsNewMaxDepth(scrollY, range, maxScrollDepth)
  THEN /\ maxScrollDepth' = ScrollDepth(scrollY, range)
       /\ IF EmitsScrollDepth(ScrollDepth(scrollY, range))
          THEN TrackEventNow("scroll_depth",
                 [NoData EXCEPT !.depth = ScrollDepth(scrollY, range)])
          ELSE UNCHANGED <<eventQueue, sent, wire, escaped>>
  ELSE UNCHANGED <<maxScrollDepth, eventQueue, sent, wire, escaped>>

\* the scroll listener's timeout fires (no earlier than it is due)
ScrollTimerFire ==
  /\ pc = "idle"
  /\ scrollTimer # Nil
  /\ now >= scrollTimer
  /\ scrollTimer' = Nil
  /\ \E range \in ScrollRanges : ScrollSettled(range)
  /\ UNCHANGED <<outsideVars, idVars, pageLoadTime, listeners, localStorage, browserVars,
                 now, pc, cur, historyVars>>

\* the page is about to unload; the beforeunload listener, if installed
BeforeUnload ==
  /\ pc = "idle"
  /\ IF listeners > 0
     THEN TrackEventNow("page_unload",
            [NoData EXCEPT !.timeOnPage = TimeOnPage(now, pageLoadTime),
                           !.scrollDepth = maxScrollDepth])
     ELSE UNCHANGED <<eventQueue, sent, wire, escaped>>
  /\ UNCHANGED <<outsideVars, idVars, pageLoadTime, closureVars, localStorage, browserVars,
                 now, pc, cur, historyVars>>

\* ------------------------------------------------------------ the browser
\* time passes between two tasks of the event loop, up to limit
TickBy(step, limit) ==
  /\ pc = "idle"
  /\ now + step <= limit
  /\ now' = now + step
  /\ UNCHANGED <<outsideVars, idVars, pageLoadTime, eventQueue, closureVars, localStorage,
                 browserVars, sent, wire, escaped, pc, cur, historyVars>>

TickUntil(limit) == TickBy(TickMs, limit)

Tick == TickUntil(MaxTime)

\* time passes by less than the timeout of the scroll listener
BurstTick == TickBy(BurstTickMs, MaxBurstTime)

PageTick == TickUntil(MaxPageTime)

\* the user clears the site's data: a new durable-storage scope
ClearStorage ==
  /\ pc = "idle"
  /\ localStorage # NoId
  /\ localStorage' = NoId
  /\ scopeVisitors' = {}
  /\ scopeInits' = 0
  /\ UNCHANGED <<outsideVars, idVars, pageLoadTime, eventQueue, closureVars, browserVars,
                 now, sent, wire, escaped, pc, cur, lastInit, loadedAt>>

\* the network behind the transports changes
NetworkChange ==
  /\ pc = "idle"
  /\ \E n \in Networks \ {network} : network' = n
  /\ UNCHANGED <<idVars, pageLoadTime, eventQueue, closureVars, localStorage,
                 browserVars, now, sent, wire, escaped, pc, cur, historyVars,
                 hasBeacon, hasFetch, serverVars, loyalty>>

\* ------------------------------------------------------------ loyalty
LoyaltyMethods == {"getPoints", "getRewards", "redeemReward"}

\* what everything but the loyalty call keeps
LoyaltyFrame ==
  UNCHANGED <<idVars, pageLoadTime, eventQueue, closureVars, localStorage,
              browserVars, now, sent, wire, escaped, pc, cur, historyVars,
              envVars, serverVars>>

\* the host page calls Analytics.loyalty.<method>(callback), with
\* config.loyaltyEnabled as it is and a callback that throws or does not:
\* disabled, the callback is called at once and nothing is requested;
\* enabled, fetch is called (a ReferenceError where there is no fetch)
LoyaltyCall ==
  /\ pc = "idle"
  /\ loyalty.phase \in {"none", "done"}
  /\ \E method \in LoyaltyMethods, enabled \in BOOLEAN, cbThrows \in BOOLEAN :
       loyalty' =
         [NoLoyalty EXCEPT
            !.method = method, !.enabled = enabled, !.cbThrows = cbThrows,
            !.phase = IF enabled /\ hasFetch THEN "fetching" ELSE "done",
            !.requests = IF enabled /\ hasFetch THEN 1 ELSE 0,
            !.callbacks = IF enabled THEN 0 ELSE 1,
            !.threw = IF enabled THEN ~hasFetch ELSE cbThrows]
  /\ LoyaltyFrame

\* the request is answered or lost: fetch's promise is rejected on a
\* network failure; otherwise response.json() gives an object or null, or
\* rejects when the body is not JSON
LoyaltyResponse ==
  /\ pc = "idle"
  /\ loyalty.phase = "fetching"
  /\ \E data \in {"object", "null", "invalid"} :
       loyalty' =
         IF network = "failed" \/ data = "invalid"
         THEN [loyalty EXCEPT !.phase = "rejected"]
         ELSE [loyalty EXCEPT !.phase = "parsed", !.data = data]
  /\ LoyaltyFrame

\* .then(...).catch(...): a then whose function throws rejects the promise
\* the catch is attached to
AfterThen(thrown) == IF thrown THEN "rejected" ELSE "done"

\* the second then: callback(null, data.points || 0), callback(null,
\* data.rewards || []) or callback(null, data); reading a property of null
\* throws before the callback is called
LoyaltyThen ==
  /\ pc = "idle"
  /\ loyalty.phase = "parsed"
  /\ loyalty' =
       IF loyalty.data = "null" /\ loyalty.method # "redeemReward"
       THEN [loyalty EXCEPT !.phase = AfterThen(TRUE)]
       ELSE [loyalty EXCEPT !.callbacks = @ + 1,
                            !.phase = AfterThen(loyalty.cbThrows)]
  /\ LoyaltyFrame

\* the catch: callback(error, ...); what the callback throws here is an
\* unhandled rejection
LoyaltyCatch ==
  /\ pc = "idle"
  /\ loyalty.phase = "rejected"
  /\ loyalty' = [loyalty EXCEPT !.callbacks = @ + 1, !.phase = "done",
                                !.threw = loyalty.cbThrows]
  /\ LoyaltyFrame

\* ------------------------------------------------------------ the endpoint
\* the tracker's variables
trackerVars == <<idVars, pageLoadTime, eventQueue, localStorage, closureVars,
                 browserVars, now, sent, pc, cur, historyVars, envVars, wire,
                 escaped, loyalty>>

\* trackingRateLimiter: the request is counted, and passes while the count
\* of its window does not exceed the ceiling (the count saturates above it)
LimiterPasses(count) == count < RateMax

\* the POST /track handler: the responses it writes and the records it
\* logs; fault: logger.info throws
HandleTrack(body, userAgent, ip, fault) ==
  IF FailsValidation(body)
  THEN /\ responses' = <<BadRequest(body)>>
       /\ forwarded' = <<>>
  ELSE IF fault
       THEN /\ responses' = <<ServerError>>
            /\ forwarded' = <<>>
       ELSE /\ responses' = <<Tracked>>
            /\ forwarded' = <<TrackingRecord(body, userAgent, ip)>>

\* the windows of the tracking and of the general limiter (ms)
WindowMs == 60000

GeneralWindowMs == 900000

\* Math.ceil(windowMs / 1000) of the general limiter's rejection
GeneralRetryAfter == (GeneralWindowMs + 999) \div 1000

\* a slip: a window, once begun, never ends
WindowOpen_Forever(reset, t) == reset # Nil

\* the client has a window that has not ended at time t
WindowOpen(reset, t) == reset # Nil /\ t < reset

\* the requests counted in the client's window before the one arriving at t
CountBefore(count, reset, t) == IF WindowOpen(reset, t) THEN count ELSE 0

\* the end of the client's window once a request has arrived at t: a window
\* begins with its first request
ResetAfter(reset, t, windowMs) == IF WindowOpen(reset, t) THEN reset ELSE t + windowMs

\* a slip: the limiter does not count the request
Counted_NotCounted(count, max) == count

\* the count once one more request is counted (it saturates above the ceiling)
Counted(count, max) == IF count <= max THEN count + 1 ELSE count

\* router.use(trackingRateLimiter): the request arriving now is counted
ThroughTrackingLimiter ==
  /\ hits' = Counted(CountBefore(hits, resetTime, now), RateMax)
  /\ resetTime' = ResetAfter(resetTime, now, WindowMs)

\* whether the tracking limiter lets the request arriving now pass
TrackingPasses == LimiterPasses(CountBefore(hits, resetTime, now))

\* a client posts body to /track: the limiter of the router, then the handler
PostTrack ==
  /\ \E body \in Bodies, userAgent \in UserAgents, ip \in ClientIps,
        fault \in BOOLEAN :
       /\ request' = [method |-> "POST", path |-> "/track", body |-> body,
                      userAgent |-> userAgent, ip |-> ip,
                      passed |-> TrackingPasses, fault |-> fault,
                      count |-> CountBefore(hits, resetTime, now) + 1]
       /\ IF TrackingPasses
          THEN HandleTrack(body, userAgent, ip, fault)
          ELSE /\ responses' = <<TooManyRequests>>
               /\ forwarded' = <<>>
  /\ ThroughTrackingLimiter
  /\ UNCHANGED <<apiHits, apiReset, inflight, admitted, refused, trackerVars>>

\* the answer of GET /track/health
Healthy == Response(200, {"success", "service", "timestamp"}, "true", {}, Nil)

\* the answer to a path no route handles
NotFound == Response(404, {}, "undefined", {}, Nil)

\* the tracking script, served by the route registered after the router
ScriptFile == Response(200, {}, "undefined", {}, Nil)

\* the paths outside /api that no route before the tracking router handles
OtherPaths == {"/track.js", "/nowhere"}

\* a request that is not a POST /track reaches the tracking router: the
\* limiter, then the route that handles path
RouterGet(path) ==
  /\ request' = [method |-> "GET", path |-> path, passed |-> TrackingPasses,
                 count |-> CountBefore(hits, resetTime, now) + 1]
  /\ responses' = <<IF ~TrackingPasses THEN TooManyRequests
                    ELSE IF path = "/track/health" THEN Healthy
                    ELSE IF path = "/track.js" THEN ScriptFile
                    ELSE NotFound>>
  /\ forwarded' = <<>>
  /\ ThroughTrackingLimiter
  /\ UNCHANGED <<apiHits, apiReset, inflight, admitted, refused, trackerVars>>

\* a client gets /track/health
GetHealth == RouterGet("/track/health")

\* a client gets a path that falls through to the tracking router
OtherPath == \E path \in OtherPaths : RouterGet(path)

\* the answer of GET /api/auth/health
AuthHealthy == Response(200, {"success", "service"}, "true", {}, Nil)

\* the body written by the handler of the general rateLimiter
GeneralTooManyRequests ==
  Response(429, {"error", "retryAfter"}, "undefined", {}, GeneralRetryAfter)

\* the general rateLimiter of app.use('/api/'): whether it lets the request
\* arriving now pass
GeneralPasses == CountBefore(apiHits, apiReset, now) < GeneralMax

\* a client gets /api/auth/health: the general limiter, then the auth router
AuthRequest ==
  /\ request' = [method |-> "GET", path |-> "/api/auth/health",
                 passed |-> GeneralPasses,
                 count |-> CountBefore(apiHits, apiReset, now) + 1]
  /\ responses' = <<IF GeneralPasses THEN AuthHealthy ELSE GeneralTooManyRequests>>
  /\ forwarded' = <<>>
  /\ apiHits' = Counted(CountBefore(apiHits, apiReset, now), GeneralMax)
  /\ apiReset' = ResetAfter(apiReset, now, GeneralWindowMs)
  /\ UNCHANGED <<hits, resetTime, inflight, admitted, refused, trackerVars>>

\* time passes on the server
ServerTickBy(step, limit) ==
  /\ now + step <= limit
  /\ now' = now + step
  /\ UNCHANGED <<idVars, pageLoadTime, eventQueue, localStorage, closureVars,
                 browserVars, sent, pc, cur, historyVars, envVars, wire,
                 escaped, loyalty, serverVars>>

ServerTick == ServerTickBy(TrackTickMs, MaxTrackTime)

ApiTick == ServerTickBy(ApiTickMs, MaxApiTime)

\* a slip: the limiter decides on the shared counter as it is when it
\* decides, not on the count its increment returned
TicketPasses_Reread(count, current) == LimiterPasses(current - 1)

\* the limiter's decision for the request whose increment returned count
TicketPasses(count, current) == LimiterPasses(count - 1)

\* a request enters the tracking limiter while others are inside it: the
\* store counts it and returns its count
LimiterEnter ==
  /\ hits < RateMax + MaxOver
  /\ hits' = CountBefore(hits, resetTime, now) + 1
  /\ resetTime' = ResetAfter(resetTime, now, WindowMs)
  /\ inflight' = inflight \cup {CountBefore(hits, resetTime, now) + 1}
  /\ UNCHANGED <<request, responses, forwarded, apiHits, apiReset, admitted,
                 refused, trackerVars>>

\* the limiter decides on one of the requests inside it
LimiterDecide ==
  /\ \E count \in inflight :
       /\ inflight' = inflight \ {count}
       /\ IF TicketPasses(count, hits)
          THEN admitted' = admitted + 1 /\ UNCHANGED refused
          ELSE refused' = refused + 1 /\ UNCHANGED admitted
  /\ UNCHANGED <<hits, resetTime, request, responses, forwarded, apiHits,
                 apiReset, trackerVars>>

\* the tracker across page loads: the API, the listeners that need neither
\* the clock nor the scroll position, and the durable storage
Next ==
  \/ PageLoad
  \/ Boot
  \/ InitCall
  \/ ProcessQueueShift
  \/ ProcessQueueTrack
  \/ TrackEventCall
  \/ TrackPageViewCall
  \/ Click
  \/ Submit
  \/ BeforeUnload
  \/ ClearStorage

Spec == Init /\ [][Next]_vars

\* a called function runs until it returns: the steps of a running init are
\* always taken
FairSpec == Spec /\ WF_vars(InitStep)

\* one page load, with the API, every listener and the clock
PageNext ==
  \/ Boot
  \/ InitCall
  \/ ProcessQueueShift
  \/ ProcessQueueTrack
  \/ TrackEventCall
  \/ TrackPageViewCall
  \/ VisibilityChange
  \/ Click
  \/ Submit
  \/ Scroll
  \/ ScrollTimerFire
  \/ BeforeUnload
  \/ PageTick

PageSpec == Init /\ [][PageNext]_vars

\* one page load, with the scroll listener, its timeout and the unload
\* listener, over a longer time
ScrollNext ==
  \/ Boot
  \/ InitCall
  \/ ProcessQueueShift
  \/ ProcessQueueTrack
  \/ Scroll
  \/ ScrollTimerFire
  \/ BeforeUnload
  \/ Tick

ScrollSpec == Init /\ [][ScrollNext]_vars

\* one page load with bursts of scroll events, on a clock finer than the
\* timeout of the scroll listener
DebounceNext ==
  \/ Boot
  \/ ProcessQueueShift
  \/ ProcessQueueTrack
  \/ Scroll
  \/ ScrollTimerFire
  \/ BurstTick

DebounceSpec == Init /\ [][DebounceNext]_vars

\* one page load whose storage works, with the API: init may fail for want
\* of an id and be called again; a running init runs until it returns
RetryInit == Init /\ ~storageThrows

RetryNext ==
  \/ Boot
  \/ InitCall
  \/ ProcessQueueShift
  \/ ProcessQueueTrack
  \/ TrackEventCall

RetrySpec == RetryInit /\ [][RetryNext]_vars /\ WF_vars(InitStep)

\* one page load whose host page uses the API and the shim side by side
IdNext ==
  \/ Boot
  \/ InitCall
  \/ ProcessQueueShift
  \/ ProcessQueueTrack
  \/ TrackEventCall
  \/ GtagCall

IdSpec == Init /\ [][IdNext]_vars

\* one page load whose host page uses the loyalty API, on any network
LoyaltyNext ==
  \/ Boot
  \/ ProcessQueueShift
  \/ ProcessQueueTrack
  \/ LoyaltyCall
  \/ LoyaltyResponse
  \/ LoyaltyThen
  \/ LoyaltyCatch
  \/ NetworkChange

LoyaltySpec == Init /\ [][LoyaltyNext]_vars

\* one page load, with the visibility listener, over a longer time
VisNext ==
  \/ Boot
  \/ InitCall
  \/ ProcessQueueShift
  \/ ProcessQueueTrack
  \/ VisibilityChange
  \/ Tick

VisSpec == Init /\ [][VisNext]_vars

\* one page load in any browser on any network, with the API
EnvNext ==
  \/ Boot
  \/ InitCall
  \/ ProcessQueueShift
  \/ ProcessQueueTrack
  \/ TrackEventCall
  \/ TrackPageViewCall
  \/ Click
  \/ NetworkChange

EnvSpec == EnvInit /\ [][EnvNext]_vars

\* one page load whose host page uses only the shim
ShimNext ==
  \/ Boot
  \/ ProcessQueueShift
  \/ ProcessQueueTrack
  \/ GtagCall

ShimSpec == Init /\ [][ShimNext]_vars

\* the endpoint alone, before any page is loaded
ServerInit ==
  /\ Init
  /\ cfgTrackingId = NoId
  /\ autoTrack
  /\ ~storageThrows

ServerNext ==
  \/ PostTrack
  \/ GetHealth
  \/ OtherPath

ServerSpec == ServerInit /\ [][ServerNext]_vars

\* the limiters over time, under requests without a body
LimitNext ==
  \/ GetHealth
  \/ AuthRequest
  \/ ServerTick
  \/ ApiTick

LimitSpec == ServerInit /\ [][LimitNext]_vars

\* overlapping requests inside the tracking limiter
ConcNext ==
  \/ LimiterEnter
  \/ LimiterDecide

ConcSpec == ServerInit /\ [][ConcNext]_vars

\* ------------------------------------------------------------ claims
\* what the host page can have queued before init, and what init queues
QueueEntries ==
  {[eventType |-> t, customData |-> [NoData EXCEPT !.tag = g]] :
     t \in ApiEventTypes \cup {"page_view"}, g \in Tags \cup {""}}

Queues == UNION {[1..n -> QueueEntries] : n \in 0..MaxQueue}

\* an event as trackEvent was given it
CallOf(e) == [eventType |-> e.eventType, customData |-> e.customData]

\* the last Len(q) transmitted events are the calls of q, in order
SentEndsWith(q) ==
  /\ Len(sent) >= Len(q)
  /\ \A i \in 1..Len(q) : CallOf(sent[Len(sent) - Len(q) + i]) = q[i]

\* the page views init itself transmitted (trackPageView() without customData)
AutoPageViews ==
  Cardinality({i \in 1..Len(sent) :
     sent[i].eventType = "page_view" /\ sent[i].customData = PageViewData("")})

\* C1: an init call that has found a tracking id and has reached its queue
\* processing terminates and leaves the tracker initialized, whatever the
\* queue holds and whatever autoTrack is.
C1_InitTerminatesInitialized ==
  (pc = "queue") ~> (pc = "idle" /\ isInitialized)

\* C2: the trackEvent calls queued before init are, once init runs with a
\* tracking id, each transmitted, in the order of the calls, and init ends
\* with the queue empty.
C2_QueuedEventsReplayedInOrder ==
  \A q \in Queues :
    (pc = "queue" /\ eventQueue = q)
      ~> (isInitialized /\ eventQueue = <<>> /\ SentEndsWith(q))

\* C3: an init with autoTrack enabled ends with exactly one page view of its
\* own transmitted; with autoTrack disabled no such page view is ever
\* transmitted.
C3_AutoPageViewOnce ==
  /\ (pc = "queue" /\ autoTrack) ~> (isInitialized /\ AutoPageViews = 1)
  /\ [](~autoTrack => AutoPageViews = 0)

\* C4: a call of init on an initialized tracker, whatever its argument,
\* leaves trackingId, visitorId, sessionId, the listeners and the queue as
\* they were and transmits nothing.
C4_InitIdempotent ==
  [][(isInitialized /\ InitCall)
       => UNCHANGED <<cfgTrackingId, visitorId, sessionId, isInitialized,
                      listeners, eventQueue, sent, localStorage, pc>>]_vars

\* C4 happens: an init call on an initialized tracker has returned
C4_Witness == isInitialized /\ lastInit = "noop" /\ pc = "idle"

\* C5: every transmitted event carries a non-empty trackingId, visitorId and
\* sessionId, and after an init call that found no tracking id the tracker
\* is uninitialized and has transmitted nothing.
C5_NoEventWithoutIds ==
  /\ \A i \in 1..Len(sent) :
       /\ sent[i].trackingId # NoId
       /\ sent[i].visitorId # NoId
       /\ sent[i].sessionId # NoId
  /\ lastInit = "noid" => (~isInitialized /\ sent = <<>> /\ cfgTrackingId = NoId)

\* C5 happens: init has run with a tracking id and events have been
\* transmitted
C5_Witness == Len(sent) > 0 /\ lastInit = "ran" /\ isInitialized

\* C6: the storage entry is written only when it is absent, and all the
\* initializations that share one storage scope resolve the same visitor id.
C6_VisitorIdStable ==
  [][/\ (localStorage' # localStorage /\ localStorage' # NoId) => localStorage = NoId
     /\ Cardinality(scopeVisitors') <= 1
     /\ (visitorId' # NoId /\ localStorage' # NoId /\ visitorId' # visitorId)
          => visitorId' = localStorage']_vars

\* C6 happens: a second page load has initialized in the same storage scope
C6_Witness ==
  /\ scopeInits >= 2
  /\ isInitialized
  /\ visitorId = localStorage
  /\ scopeVisitors = {visitorId}

\* C7: all events transmitted in one page load carry the same visitorId and
\* the same sessionId, those of the tracker's state.
C7_OneSessionPerLoad ==
  \A i \in 1..Len(sent) :
    /\ sent[i].visitorId = visitorId
    /\ sent[i].sessionId = sessionId
    /\ \A j \in 1..Len(sent) :
         /\ sent[i].visitorId = sent[j].visitorId
         /\ sent[i].sessionId = sent[j].sessionId

\* C7 happens: two events of different types were transmitted, one of them
\* by a listener
C7_Witness ==
  /\ Len(sent) >= 2
  /\ sent[1].eventType # sent[2].eventType
  /\ \E i \in 1..Len(sent) :
       sent[i].eventType \in {"scroll_depth", "page_hidden", "page_unload"}

\* the depths of the scroll_depth events, in the order of transmission
RECURSIVE DepthsOf(_)
DepthsOf(s) ==
  IF s = <<>> THEN <<>>
  ELSE IF Head(s).eventType = "scroll_depth"
       THEN <<Head(s).customData.depth>> \o DepthsOf(Tail(s))
       ELSE DepthsOf(Tail(s))

Thresholds == {25, 50, 75, 100}

\* C8: the depths of the scroll_depth events of a page load are among 25,
\* 50, 75 and 100 and strictly increase (so each occurs at most once).
C8_ScrollDepthsIncrease ==
  LET d == DepthsOf(sent)
  IN /\ \A i \in 1..Len(d) : d[i] \in Thresholds
     /\ \A i \in 1..Len(d), j \in 1..Len(d) : i < j => d[i] < d[j]

\* C8 happens: 25 and 50 were emitted, then the user scrolled back up to 25%
\* and the timeout fired without emitting
C8_Witness ==
  /\ DepthsOf(sent) = <<25, 50>>
  /\ maxScrollDepth = 50
  /\ scrollY = 10
  /\ scrollTimer = Nil

\* C9: once the scroll position has settled at a depth of at least 25%, a
\* scroll_depth event for the highest 25%-multiple at or below that depth
\* has been transmitted (settling at 60% transmits depth 50).
C9_CrossedThresholdEmitted ==
  (listeners > 0 /\ maxScrollDepth >= 25)
    => \E i \in 1..Len(sent) :
         /\ sent[i].eventType = "scroll_depth"
         /\ sent[i].customData.depth = 25 * (maxScrollDepth \div 25)

\* C10: the timeOnPage of a page_unload event is the time since the page
\* was loaded.
C10_UnloadTimeIsTotal ==
  [][(Len(sent') = Len(sent) + 1 /\ sent'[Len(sent')].eventType = "page_unload")
       => sent'[Len(sent')].customData.timeOnPage = now - loadedAt]_vars

\* the event a step has just handed to sendEvent
LastSent == sent'[Len(sent')]

\* C11: the scrollDepth of a page_unload event is maxScrollDepth, which
\* never decreases during a page load; it is at most 100 and at least the
\* depth of every scroll_depth event and the scrollDepth of every
\* page_unload event transmitted before it.
C11_UnloadScrollDepthIsMax ==
  [][/\ maxScrollDepth' >= maxScrollDepth
     /\ (Len(sent') = Len(sent) + 1 /\ LastSent.eventType = "page_unload")
          => /\ LastSent.customData.scrollDepth = maxScrollDepth
             /\ LastSent.customData.scrollDepth <= 100
             /\ \A i \in 1..Len(sent) :
                  /\ sent[i].eventType = "scroll_depth"
                       => sent[i].customData.depth <= LastSent.customData.scrollDepth
                  /\ sent[i].eventType = "page_unload"
                       => sent[i].customData.scrollDepth
                            <= LastSent.customData.scrollDepth]_vars

\* C11 happens: 25% was emitted, the position then settled at 60% and the
\* page was unloaded
C11_Witness ==
  /\ Len(sent) = 2
  /\ sent[1].eventType = "scroll_depth"
  /\ sent[1].customData.depth = 25
  /\ sent[2].eventType = "page_unload"
  /\ sent[2].customData.scrollDepth = 60

\* C12: on an initialized tracker each change of the tab's visibility
\* transmits exactly one event: page_hidden with the non-negative time since
\* the timer was started, the timer being left alone, or page_visible, the
\* timer being restarted at the current time; nothing else moves the timer.
C12_VisibilityEvents ==
  [][/\ (isInitialized /\ visibility' # visibility)
          => /\ Len(sent') = Len(sent) + 1
             /\ SubSeq(sent', 1, Len(sent)) = sent
             /\ IF visibility' = "hidden"
                THEN /\ LastSent.eventType = "page_hidden"
                     /\ LastSent.customData.timeOnPage = now - pageLoadTime
                     /\ LastSent.customData.timeOnPage >= 0
                     /\ pageLoadTime' = pageLoadTime
                ELSE /\ LastSent.eventType = "page_visible"
                     /\ pageLoadTime' = now
     /\ pageLoadTime' # pageLoadTime
          => (visibility = "hidden" /\ visibility' = "visible")]_vars

\* C12 happens: the tab became visible 250 ms after the page was loaded and
\* was hidden 250 ms later; page_hidden reports 250, not 500
C12_Witness ==
  /\ Len(sent) = 2
  /\ sent[1].eventType = "page_visible"
  /\ sent[2].eventType = "page_hidden"
  /\ sent[2].customData.timeOnPage = 250
  /\ now - loadedAt = 500

\* C13: a trackEvent call on an initialized tracker makes, within the
\* call, exactly one transmission attempt for its event, through sendBeacon
\* if that exists and else through fetch, whatever became of the earlier
\* attempts; no other step makes an attempt, so the attempts are in the
\* order of the calls.
C13_OneTransmissionPerCall ==
  [][/\ \A type \in ApiEventTypes, tag \in Tags :
          (isInitialized /\ ApiTrackEvent(type, [NoData EXCEPT !.tag = tag]))
          => /\ sent' = Append(sent, [trackingId |-> cfgTrackingId,
                                      visitorId |-> visitorId,
                                      sessionId |-> sessionId,
                                      eventType |-> type,
                                      customData |-> [NoData EXCEPT !.tag = tag]])
             /\ wire' = Append(wire,
                               [via |-> IF hasBeacon THEN "beacon" ELSE "fetch",
                                outcome |-> IF hasBeacon \/ hasFetch
                                            THEN network ELSE "threw"])
     /\ wire' # wire
          => /\ Len(wire') = Len(wire) + 1
             /\ SubSeq(wire', 1, Len(wire)) = wire
             /\ Len(sent') = Len(sent) + 1
     /\ Len(wire') = Len(sent')]_vars

\* C13 happens: a request through fetch was answered 429, and the event of
\* the next call was transmitted all the same
C13_Witness ==
  /\ Len(wire) = 2
  /\ wire[1] = [via |-> "fetch", outcome |-> "limited"]
  /\ wire[2] = [via |-> "fetch", outcome |-> "ok"]
  /\ sent[1].eventType = "custom"
  /\ sent[2].eventType = "custom"

\* C14: no exception leaves the tracker, whatever the browser lacks.
C14_NoExceptionEscapes == ~escaped

\* C15: gtag('config', id) is Analytics.init(id), gtag('event', type, data)
\* is Analytics.trackEvent(type, data), and 'config' without an id or any
\* other command changes nothing.
C15_ShimIsTheApi ==
  [][\A fresh \in VisitorIds, session \in SessionIds, tag \in Tags :
       LET data == [NoData EXCEPT !.tag = tag]
       IN /\ \A id \in TrackingIds :
               Gtag("config", id, data, fresh, session) <=> ApiInit(id, fresh, session)
          /\ \A type \in ApiEventTypes :
               Gtag("event", type, data, fresh, session) <=> ApiTrackEvent(type, data)
          /\ Gtag("config", NoId, data, fresh, session) => UNCHANGED vars
          /\ \A arg \in {NoId} \cup TrackingIds :
               Gtag("set", arg, data, fresh, session) => UNCHANGED vars]_vars

\* C15 happens: a page that uses only the shim has an initialized tracker
\* that transmitted the event of a gtag('event') call
C15_Witness ==
  /\ isInitialized
  /\ lastInit = "ran"
  /\ Len(sent) >= 1
  /\ sent[Len(sent)].eventType = "custom"

\* the request being answered is a POST /track that passed the limiter
Passed == request.method = "POST" /\ request.passed

\* the required fields the body lacks
MissingFields == {f \in RequiredFields : request.body[f] = Absent}

\* C16: a POST /track that passed the limiter and lacks a required field is
\* answered 400 with success false, once, and nothing is logged downstream.
C16_MissingFieldRejected ==
  (Passed /\ MissingFields # {})
    => /\ Len(responses) = 1
       /\ responses[1].status = 400
       /\ responses[1].success = "false"
       /\ forwarded = <<>>

\* C16 happens: only visitorId was missing
C16_Witness ==
  /\ Passed
  /\ MissingFields = {"visitorId"}
  /\ \A f \in RequiredFields \ {"visitorId"} : request.body[f] \notin {Absent} \cup FalsyValues
  /\ responses[1].status = 400

\* C17: the error of a 400 names exactly the required fields the body lacks.
C17_ErrorNamesMissingFields ==
  (Passed /\ responses[1].status = 400) => responses[1].named = MissingFields

\* the logged record is the body, field for field, with the defaults for
\* the omitted eventType and customData, the User-Agent and the address
ForwardedUnchanged ==
  /\ Len(forwarded) = 1
  /\ \A f \in {"trackingId", "pageUrl", "pageTitle", "referrer", "sessionId",
               "visitorId"} : forwarded[1][f] = request.body[f]
  /\ request.body.eventType # Absent => forwarded[1].eventType = request.body.eventType
  /\ request.body.customData # Absent
       => forwarded[1].customData = request.body.customData
  /\ forwarded[1].userAgent = (IF request.userAgent = Absent THEN "" ELSE request.userAgent)
  /\ forwarded[1].ipAddress = request.ip

\* the answer is one 200 with success true and no event id
AnsweredTracked ==
  /\ Len(responses) = 1
  /\ responses[1].status = 200
  /\ responses[1].success = "true"
  /\ "eventId" \notin responses[1].keys

C19_EventTypeDefault ==
  /\ (request.method = "POST" /\ forwarded # <<>>)
       => forwarded[1].eventType =
            (IF request.body.eventType = Absent THEN "page_view"
             ELSE request.body.eventType)
  /\ (Passed /\ ~request.fault /\ request.body.eventType = Absent
        /\ \A f \in RequiredFields : request.body[f] \notin {Absent} \cup FalsyValues)
       => Len(forwarded) = 1

\* C19 happens: a body without eventType was logged as a page_view
C19_Witness ==
  /\ request.method = "POST"
  /\ request.body.eventType = Absent
  /\ Len(forwarded) = 1
  /\ forwarded[1].eventType = "page_view"

\* C20: every request is answered once, with a JSON object that has a
\* boolean success.
C20_AlwaysSuccessField ==
  request.method = "POST"
    => /\ Len(responses) = 1
       /\ "success" \in responses[1].keys
       /\ responses[1].success \in {"true", "false"}

\* the ceiling of the authentication policy
AuthMax == 5

\* the status of the answer a step has just written
StatusNow == responses'[1].status

\* C21: of the requests of one client within one window of a policy the
\* first N pass and the next is answered 429 with a retryAfter no longer
\* than the window, and a request that arrives once the window has ended
\* begins a new one and passes; for the tracking and for the general policy.
C21_WindowAdmitsN ==
  [][/\ GetHealth
          => /\ request'.count <= RateMax => StatusNow = 200
             /\ request'.count = RateMax + 1
                  => /\ StatusNow = 429
                     /\ responses'[1].retryAfter * 1000 <= WindowMs
             /\ (resetTime # Nil /\ now >= resetTime)
                  => (request'.count = 1 /\ StatusNow = 200)
     /\ AuthRequest
          => /\ request'.count <= GeneralMax => StatusNow = 200
             /\ request'.count = GeneralMax + 1
                  => /\ StatusNow = 429
                     /\ responses'[1].retryAfter * 1000 <= GeneralWindowMs
             /\ (apiReset # Nil /\ now >= apiReset)
                  => (request'.count = 1 /\ StatusNow = 200)]_vars

\* C21 happens: the request after the last one allowed was rejected, 40
\* seconds into the window
C21_Witness ==
  /\ request.method = "GET"
  /\ request.path = "/track/health"
  /\ request.count = RateMax + 1
  /\ responses[1].status = 429
  /\ resetTime - now = 20000

\* C22: the retryAfter of a 429 is the time, in seconds, that remains of
\* the client's window when the request is rejected.
C22_RetryAfterIsRemaining ==
  [][/\ (GetHealth /\ StatusNow = 429)
          => responses'[1].retryAfter = (resetTime' - now + 999) \div 1000
     /\ (AuthRequest /\ StatusNow = 429)
          => responses'[1].retryAfter = (apiReset' - now + 999) \div 1000]_vars

\* C23: of the requests that overlap inside the tracking limiter of an
\* empty window none is lost, at most N pass, and once all are decided
\* exactly N of M > N have passed and M - N were rejected.
C23_ExactlyNAdmitted ==
  /\ admitted + refused + Cardinality(inflight) = hits
  /\ admitted <= RateMax
  /\ inflight = {}
       => /\ admitted = (IF hits < RateMax THEN hits ELSE RateMax)
          /\ refused = hits - admitted

\* C23 happens: every later request was decided while the first was still
\* inside the limiter
C23_Witness ==
  /\ hits = RateMax + MaxOver
  /\ inflight = {1}
  /\ admitted = RateMax - 1
  /\ refused = MaxOver

\* C24: a request to /api/auth that is the sixth or a later one of its
\* client within 15 minutes is answered 429.
C24_AuthLimitedToFive ==
  (request.method = "GET" /\ request.path = "/api/auth/health"
     /\ request.count > AuthMax)
    => responses[1].status = 429

\* C25: a scroll event computes nothing and records nothing, it only makes
\* the one timeout due 250 ms later; the maximum depth and the scroll_depth
\* events change only when that timeout fires, no earlier than 250 ms after
\* the last scroll event, once for the burst, and from the scroll position of
\* that moment.
C25_DebouncedOnce ==
  [][/\ (Scroll /\ listeners > 0)
          => /\ scrollTimer' = now + DebounceMs
             /\ UNCHANGED <<maxScrollDepth, sent>>
     /\ (maxScrollDepth' # maxScrollDepth \/ DepthsOf(sent') # DepthsOf(sent))
          => /\ scrollTimer # Nil
             /\ now >= scrollTimer
             /\ scrollTimer' = Nil
             /\ scrollY' = scrollY
             /\ \E range \in ScrollRanges :
                  /\ range > 0
                  /\ maxScrollDepth' = ScrollDepth(scrollY, range)
                  /\ Len(DepthsOf(sent')) <= Len(DepthsOf(sent)) + 1]_vars

\* C25 happens: the timeout restarted 125 ms into a burst has fired 250 ms
\* later and recorded the depth of the position the burst ended at
C25_Witness ==
  /\ now = 375
  /\ scrollTimer = Nil
  /\ scrollY = 10
  /\ maxScrollDepth = 25
  /\ DepthsOf(sent) = <<25>>

\* the calls of q were transmitted one after the other, in order
SentHolds(q) ==
  \E k \in 0..Len(sent) :
    /\ k + Len(q) <= Len(sent)
    /\ \A i \in 1..Len(q) : CallOf(sent[k + i]) = q[i]

\* C28: an init that finds no tracking id changes nothing (no visitor id is
\* stored, no session begins, no listener is installed, the queue is
\* kept), and unless no init with an id follows, the tracker becomes
\* initialized and the events that were queued at the failure are transmitted.
C28_FailedInitRecoverable ==
  /\ [][(InitCall /\ lastInit' = "noid")
          => UNCHANGED <<visitorId, sessionId, localStorage, listeners,
                         eventQueue, isInitialized, sent>>]_vars
  /\ \A q \in Queues :
       []((lastInit = "noid" /\ pc = "idle" /\ eventQueue = q)
            => \/ [](lastInit = "noid")
               \/ <>(isInitialized /\ SentHolds(q)))

\* C29: an initialized tracker stays initialized and keeps its tracking id
\* whatever is called, init and gtag('config', id) with another id included,
\* and every event it transmits carries that id.
C29_TrackingIdFixed ==
  [][isInitialized
       => /\ isInitialized'
          /\ cfgTrackingId' = cfgTrackingId
          /\ \A i \in 1..Len(sent') : sent'[i].trackingId = cfgTrackingId]_vars

\* C29 happens: after an init call on the initialized tracker an event was
\* transmitted with the id of the first init
C29_Witness ==
  /\ isInitialized
  /\ lastInit = "noop"
  /\ Len(sent) = MaxSent
  /\ sent[MaxSent].trackingId = cfgTrackingId

\* C30: a loyalty call that has run its course has invoked its callback
\* exactly once, whatever the outcome, and with loyalty disabled it has made
\* no request.
C30_CallbackOnce ==
  loyalty.phase = "done"
    => /\ loyalty.callbacks = 1
       /\ ~loyalty.enabled => loyalty.requests = 0

\* the requests the tracking limiter has counted in the window that is open
CountNow == IF resetTime # Nil /\ now < resetTime THEN hits ELSE 0

\* C26: every request that reaches the tracking router, whatever its
\* method, path and outcome, is counted against the one quota of its client
\* before anything else, and is answered 429 exactly when the quota is used
\* up. (Every step of ServerSpec is a request to the tracking router.)
C26_OneQuotaForTheRouter ==
  [][request'.path \in {"/track", "/track/health"} \cup OtherPaths
       => /\ request'.count = CountNow + 1
          /\ hits' = (IF CountNow <= RateMax THEN CountNow + 1 ELSE CountNow)
          /\ StatusNow = 429 <=> CountNow >= RateMax
          /\ StatusNow = 429 => forwarded' = <<>>]_vars

\* C26 happens: a well-formed POST /track was answered 429
C26_Witness ==
  /\ request.method = "POST"
  /\ request.body = GivenBody
  /\ ~request.passed
  /\ responses[1].status = 429
  /\ hits = RateMax + 1

\* C27: a POST /track that passed the limiter and has a required field
\* that is "", 0, false or null is answered as one that lacks the field:
\* 400, success false, the same error, nothing logged.
C27_FalsyIsMissing ==
  (Passed /\ \E f \in RequiredFields : request.body[f] \in FalsyValues)
    => /\ responses = <<[status |-> 400, keys |-> {"success", "error"},
                         success |-> "false", named |-> RequiredFields,
                         retryAfter |-> Nil]>>
       /\ forwarded = <<>>

\* C27 happens: trackingId was 0 and every other field was given
C27_Witness ==
  /\ Passed
  /\ request.body = [GivenBody EXCEPT !.trackingId = "0"]
  /\ responses[1].status = 400

====
